---- MODULE Spec2Model ----
(***************************************************************************)
(* Host-side driver for a DesignWare-style MMC/SD controller               *)
(* (src/src/lib.rs, src/src/ops.rs).                                       *)
(*                                                                         *)
(* The driver is single-threaded and busy-polls memory-mapped registers.   *)
(* The model is the driver's control flow, one action per poll or per      *)
(* straight-line stretch of register accesses, running against a           *)
(* controller that is free to behave in any way the register semantics     *)
(* allow: a register read returns any value the hardware may hold at that  *)
(* moment (the controller's own progress is folded into the read that      *)
(* observes it).                                                           *)
(*                                                                         *)
(* Time: a MillisCountDown is a number of remaining ticks; every call of   *)
(* timeout() may find that one more tick has passed.  The millisecond      *)
(* budgets of the code (0xFF, DATA_TMOUT_DEFUALT, 10) are scaled down to   *)
(* WaitBudget / DataBudget ticks.  The spin delays only let time pass.     *)
(*                                                                         *)
(* crate::cmd, crate::reg, crate::sd_reg and crate::err are not part of    *)
(* the sources at hand: the command encoders, the response views and       *)
(* Interrupt::check are modelled from the specification's description.     *)
(***************************************************************************)
EXTENDS Integers, Sequences, FiniteSets, TLC

VARIABLES
    \* ---- driver control ----
    top,        \* public operation in progress, "idle" between operations
    step,       \* position of that operation between its calls into MmcOperate
    pc,         \* position inside the MmcOperate method being executed
    timer,      \* remaining ticks of the MillisCountDown in use
    cmd,        \* the Command being sent by send_cmd
    resp,       \* send_cmd's local `resp` while it waits for the FIFO reset
    res,        \* value returned by the MmcOperate method that just finished
    result,     \* value returned by the last public operation
    calls,      \* number of public operations started
    \* ---- controller registers ----
    rintsts,    \* REG_RINTSTS: set of raw interrupt bits pending (write-1-to-clear)
    startCmd,   \* REG_CMD start_cmd bit
    ctrl,       \* REG_CTRL: reset bits still set
    dataPhase,  \* the command the controller latched last moves data
    clk,        \* REG_CLKENA and REG_CLKDIV as last written
    idinten,    \* REG_IDINTEN as last written
    \* ---- DwMmcHost fields ----
    cic, ocr, cid, csd, rca,
    \* ---- locals of the method being executed ----
    rcArgs,     \* reset_clock's (ena, div)
    buflen,     \* length of the caller's buffer
    size,       \* read_data / write_data: blk * blk_sz
    offset,     \* read_data: bytes drained so far
    mask,       \* read_data / write_data: REG_RINTSTS as read in this turn of the loop
    pend,       \* read_block / write_block: the failure being recovered from
    \* ---- observation of the run ----
    ops,        \* register accesses of the current send_cmd, in order
    cmdlog,     \* commands written to REG_CMD by the current public operation
    wf,         \* the last poll of wait_for: countdown expired?, predicate?, outcome
    ocrPolls,   \* turns of check_v18_sdhc's loop started (counted up to MaxOcrPolls + 1)
    fifoLog,    \* buffer offsets written to the data FIFO by write_data, in order
    fills,      \* times write_data filled the FIFO (counted up to MaxFills + 1)
    stopWrites  \* stop commands written by stop_transmission_ops (up to MaxStops + 1)

hwVars   == <<rintsts, startCmd, ctrl, dataPhase>>
cfgVars  == <<clk, idinten>>
hostVars == <<cic, ocr, cid, csd, rca>>
locVars  == <<rcArgs, buflen, size, offset, mask, pend>>
cntVars  == <<ocrPolls, fifoLog, fills, stopWrites>>
vars     == <<top, step, pc, timer, cmd, resp, res, result, calls,
              hwVars, cfgVars, hostVars, locVars, ops, cmdlog, wf, cntVars>>

(***************************************************************************)
(* Bounds of the model.                                                    *)
(***************************************************************************)
\* ticks given to the 0xFF ms and 10 ms waits of wait_for_cmd_line,
\* wait_for_cmd_done and wait_reset
WaitBudget == 2
\* ticks given to DATA_TMOUT_DEFUALT
DataBudget == 2
\* public operations per behaviour
MaxCalls == 1
\* turns of the OCR poll whose commands are recorded in cmdlog
MaxOcrPolls == 2
\* FIFO fills of write_data recorded in fifoLog
MaxFills == 2
\* stop commands of stop_transmission_ops recorded in cmdlog
MaxStops == 2
\* longest buffer handed to read_block / write_block
MaxBufLen == 2
\* physical_block_size(), 512 in the code, scaled down
BlockSize == 2

(***************************************************************************)
(* Results.                                                                *)
(***************************************************************************)
Ok(v)  == [ok |-> TRUE, v |-> v]
Err(e) == [ok |-> FALSE, v |-> e]
None   == [ok |-> TRUE, v |-> "none"]

\* DeviceError::IoError, and the DeviceError that `?` makes of a CardError or a
\* Timeout: it keeps the kind of the error it is made from
IoError == <<"IoError">>
DeviceErrorFrom(e) == <<"DeviceError", e>>

(***************************************************************************)
(* The controller.                                                         *)
(***************************************************************************)
\* interrupt bits of REG_RINTSTS the driver looks at
CmdBits  == {"cmd", "rto", "re", "rcrc", "hle"}
DataBits == {"dto", "rxdr", "txdr"}
Bits     == CmdBits \cup DataBits

\* InterruptMask::all()
AllBits == Bits

\* A read of REG_RINTSTS: the bits pending, plus whatever the controller has
\* raised since.  Data-phase bits are raised only for a command with data.
Raisable(dp) == IF dp THEN Bits ELSE CmdBits
RintstsReads(m, dp) == {m \cup r : r \in SUBSET Raisable(dp)}

\* A read of REG_CMD's start_cmd bit: the controller clears it by itself.
CmdBusyReads(s) == IF s THEN {TRUE, FALSE} ELSE {FALSE}

\* A read of REG_STATUS's data_busy bit.
DataBusyReads == BOOLEAN

\* A read of REG_CTRL: reset bits clear by themselves.
CtrlReads(c) == SUBSET c

WriteToClear_Nothing(m, w) == m

\* A write of `w` to REG_RINTSTS clears the bits of `w`.
WriteToClear(m, w) == m \ w

\* A response word, by the fields the driver decodes from it.
Word(p, va, busy, addr) == [pattern |-> p, va |-> va, busy |-> busy, addr |-> addr]
WordA == Word(170, 1, FALSE, 1)
WordB == Word(85, 1, TRUE, 2)
WordC == Word(170, 0, FALSE, 3)
WordD == Word(0, 0, TRUE, 0)
\* Contents of REG_RESP0..REG_RESP3 the controller may present.
RespFiles == { [i \in 0..3 |-> <<WordA, WordB, WordC, WordD>>[i + 1]],
               [i \in 0..3 |-> <<WordB, WordA, WordD, WordC>>[i + 1]],
               [i \in 0..3 |-> <<WordC, WordD, WordA, WordB>>[i + 1]] }

\* Response::{cic, ocr, cid, csd, rca}: views over the words of a response
WordOf(r) == IF Len(r.w) > 0 THEN r.w[1] ELSE WordD
CicOf(r) == [voltage_accepted |-> WordOf(r).va, pattern |-> WordOf(r).pattern]
OcrOf(r) == [busy |-> WordOf(r).busy]
RcaOf(r) == [address |-> WordOf(r).addr]
CidOf(r) == r.w
CsdOf(r) == r.w
\* Cic::new(), Ocr::new(), Cid::new(), Csd::new(), Rca::new()
NewCic == [voltage_accepted |-> 0, pattern |-> 0]
NewOcr == [busy |-> TRUE]
NewCid == <<>>
NewCsd == <<>>
NewRca == [address |-> 0]

(***************************************************************************)
(* Commands.                                                               *)
(***************************************************************************)
Command(k, a, re, rl, de) ==
    [kind |-> k, arg |-> a, resp_exp |-> re, resp_lang |-> rl, data_exp |-> de]
NoCommand == Command("none", 0, FALSE, FALSE, FALSE)
\* send_cmd takes any Command
AnyCommands == {Command("any", 0, re, rl, de) : re, rl, de \in BOOLEAN}

\* the command encoders (crate::cmd)
idle == Command("go_idle", 0, FALSE, FALSE, FALSE)
send_if_cond(v, pat) == Command("send_if_cond", v * 256 + pat, TRUE, FALSE, FALSE)
app_cmd(a) == Command("app_cmd", a, TRUE, FALSE, FALSE)
sd_send_op_cond(hcs, s18r) == Command("sd_send_op_cond", 0, TRUE, FALSE, FALSE)
all_send_cid == Command("all_send_cid", 0, TRUE, TRUE, FALSE)
send_relative_address == Command("send_relative_address", 0, TRUE, FALSE, FALSE)
send_csd(a) == Command("send_csd", a, TRUE, TRUE, FALSE)
select_card(a) == Command("select_card", a, TRUE, FALSE, FALSE)
switch_function(a) == Command("switch_function", a, TRUE, FALSE, FALSE)
set_bus_width(w) == Command("set_bus_width", w, TRUE, FALSE, FALSE)
up_clk == Command("up_clk", 0, FALSE, FALSE, FALSE)
read_single_block(lba) == Command("read_single_block", lba, TRUE, FALSE, TRUE)
write_single_block(lba) == Command("write_single_block", lba, TRUE, FALSE, TRUE)
stop_transmission == Command("stop_transmission", 0, TRUE, FALSE, FALSE)

(***************************************************************************)
(* wait_for: one turn of its loop.                                         *)
(***************************************************************************)
\* countdown values the next timeout() call may find
Tick(t) == IF t > 0 THEN {t, t - 1} ELSE {0}

WaitForStep_Optimistic(expired, pred) ==
    IF expired THEN "timeout" ELSE "done"

WaitForStep_PredicateFirst(expired, pred) ==
    IF pred THEN "done" ELSE IF expired THEN "timeout" ELSE "again"

\* count_down.timeout() is asked first, the predicate only when it says no
WaitForStep(expired, pred) ==
    IF expired THEN "timeout" ELSE IF pred THEN "done" ELSE "again"

\* a poll: what timeout() said, what the register read made of the predicate
\* (when timeout() said yes the register is not read: `p` is what it held),
\* and what wait_for did
Polled(e, p) == [expired |-> e, pred |-> p, out |-> WaitForStep(e, p)]

\* a method returns `r`; its countdown is dropped
Return(r) == pc' = "ret" /\ res' = r /\ timer' = 0

\* cmdlog after a write of `c` to REG_CMD; the turns of the OCR poll past
\* MaxOcrPolls and the stop commands past MaxStops are not recorded
LogCmd(c) ==
    IF \/ /\ c.kind \in {"app_cmd", "sd_send_op_cond"}
          /\ step \in {"app_cmd", "op_cond"}
          /\ ocrPolls > MaxOcrPolls
       \/ /\ c.kind = "stop_transmission"
          /\ stopWrites >= MaxStops
      THEN cmdlog
      ELSE Append(cmdlog, <<c.kind, c.arg>>)

(***************************************************************************)
(* send_cmd                                                                *)
(***************************************************************************)
EnterSendCmd(c) ==
    /\ cmd' = c
    /\ resp' = None
    /\ res' = None
    /\ pc' = "sc_cmd_line"
    /\ timer' = WaitBudget
    /\ ops' = <<>>

\* what send_cmd leaves alone
scFrame == <<top, step, cmd, result, calls, cfgVars, hostVars, locVars, cntVars>>

IssueCmd_CmdFirst(log) ==
    /\ startCmd' = TRUE
    /\ dataPhase' = cmd.data_exp
    /\ cmdlog' = LogCmd(cmd)
    /\ ops' = log \o << <<"wr_cmd">>, <<"wr_cmdarg">> >>
    /\ pc' = "sc_cmd_done"
    /\ timer' = WaitBudget
    /\ UNCHANGED res

\* write_reg(REG_CMDARG); write_reg(REG_CMD); wait_for_cmd_done starts
IssueCmd(log) ==
    /\ startCmd' = TRUE
    /\ dataPhase' = cmd.data_exp
    /\ cmdlog' = LogCmd(cmd)
    /\ ops' = log \o << <<"wr_cmdarg">>, <<"wr_cmd">> >>
    /\ pc' = "sc_cmd_done"
    /\ timer' = WaitBudget
    /\ UNCHANGED res

\* wait_for_cmd_line()?; write RINTSTS all; then the data-line wait or the issue
SC_WaitCmdLine ==
    /\ pc = "sc_cmd_line"
    /\ \E t \in Tick(timer), busy \in CmdBusyReads(startCmd) :
         LET p == Polled(t = 0, ~busy) IN
         /\ wf' = p
         /\ CASE p.out = "timeout" ->
                   /\ Return(Err("WaitCmdLine"))
                   /\ UNCHANGED <<hwVars, ops, cmdlog>>
              [] p.out = "again" ->
                   /\ timer' = t
                   /\ startCmd' = busy
                   /\ UNCHANGED <<pc, res, rintsts, ctrl, dataPhase, ops, cmdlog>>
              [] p.out = "done" ->
                   /\ rintsts' = WriteToClear(rintsts, AllBits)
                   /\ UNCHANGED ctrl
                   /\ IF cmd.data_exp
                        THEN /\ pc' = "sc_data_line"
                             /\ timer' = DataBudget
                             /\ startCmd' = busy
                             /\ ops' = ops \o << <<"cmd_line_idle">>, <<"wr_rintsts_all">> >>
                             /\ UNCHANGED <<res, dataPhase, cmdlog>>
                        ELSE IssueCmd(ops \o << <<"cmd_line_idle">>, <<"wr_rintsts_all">> >>)
    /\ UNCHANGED <<scFrame, resp>>

\* wait_for_data_line()?; then the issue
SC_WaitDataLine ==
    /\ pc = "sc_data_line"
    /\ \E t \in Tick(timer), busy \in DataBusyReads :
         LET p == Polled(t = 0, ~busy) IN
         /\ wf' = p
         /\ CASE p.out = "timeout" ->
                   /\ Return(Err("WaitDataLine"))
                   /\ UNCHANGED <<hwVars, ops, cmdlog>>
              [] p.out = "again" ->
                   /\ timer' = t
                   /\ UNCHANGED <<pc, res, hwVars, ops, cmdlog>>
              [] p.out = "done" ->
                   /\ IssueCmd(ops \o << <<"data_line_idle">> >>)
                   /\ UNCHANGED <<rintsts, ctrl>>
    /\ UNCHANGED <<scFrame, resp>>

\* wait_for_cmd_done()?
SC_WaitCmdDone ==
    /\ pc = "sc_cmd_done"
    /\ \E t \in Tick(timer), m \in RintstsReads(rintsts, dataPhase) :
         LET p == Polled(t = 0, "cmd" \in m) IN
         /\ wf' = p
         /\ CASE p.out = "timeout" ->
                   /\ Return(Err("WaitCmdDone"))
                   /\ UNCHANGED <<rintsts, ops>>
              [] p.out = "again" ->
                   /\ timer' = t
                   /\ rintsts' = m
                   /\ UNCHANGED <<pc, res, ops>>
              [] p.out = "done" ->
                   /\ pc' = "sc_resp"
                   /\ timer' = 0
                   /\ rintsts' = m
                   /\ ops' = Append(ops, <<"cmd_done">>)
                   /\ UNCHANGED res
    /\ UNCHANGED <<scFrame, resp, startCmd, ctrl, dataPhase, cmdlog>>

\* the response-phase classification of the mask read from REG_RINTSTS
ClassifyResp_CrcFirst(m) ==
    IF "rcrc" \in m THEN "ResponseCrc"
    ELSE IF "rto" \in m THEN "ResponseTimeout"
    ELSE IF "re" \in m THEN "ResponseErr"
    ELSE "none"

ClassifyResp(m) ==
    IF "rto" \in m THEN "ResponseTimeout"
    ELSE IF "re" \in m THEN "ResponseErr"
    ELSE IF "rcrc" \in m THEN "ResponseCrc"
    ELSE "none"

\* the rto and re branches write the mask back; the rcrc branch does not
ErrorClears(cls, m) == IF cls \in {"ResponseTimeout", "ResponseErr"} THEN m ELSE {}

\* the response registers send_cmd reads, in order
RespRegsRead_Reversed(c) ==
    IF ~c.resp_exp THEN <<>>
    ELSE IF c.resp_lang THEN <<3, 2, 1, 0>> ELSE <<0>>

RespRegsRead_Always(c) ==
    IF c.resp_lang THEN <<0, 1, 2, 3>> ELSE <<0>>

RespRegsRead(c) ==
    IF ~c.resp_exp THEN <<>>
    ELSE IF c.resp_lang THEN <<0, 1, 2, 3>> ELSE <<0>>

\* the Response built from the words read
MakeResponse(c, regs) ==
    LET idx == RespRegsRead(c) IN
    [kind |-> IF ~c.resp_exp THEN "Rz" ELSE IF c.resp_lang THEN "R136" ELSE "R48",
     w |-> [i \in 1..Len(idx) |-> regs[idx[i]]]]

RespName == <<"rd_resp0", "rd_resp1", "rd_resp2", "rd_resp3">>

\* the reads of the response registers, each with the word it returned
RespOps(c, regs) ==
    LET idx == RespRegsRead(c) IN
    [i \in 1..Len(idx) |-> <<RespName[idx[i] + 1], regs[idx[i]]>>]

\* after `resp` is computed: wait_reset(fifo_reset) for a data command, else
\* the return
AfterResp(r) ==
    IF cmd.data_exp
      THEN /\ pc' = "sc_fifo_reset"
           /\ timer' = WaitBudget
           /\ resp' = Ok(r)
           /\ UNCHANGED res
      ELSE /\ Return(Ok(r))
           /\ UNCHANGED resp

\* `let resp = if cmd.resp_exp() { ... } else { Response::Rz }`
SC_Response ==
    /\ pc = "sc_resp"
    /\ IF cmd.resp_exp
         THEN \E m \in RintstsReads(rintsts, dataPhase) :
                LET cls == ClassifyResp(m) IN
                IF cls # "none"
                  THEN /\ rintsts' = WriteToClear(m, ErrorClears(cls, m))
                       /\ ops' = ops \o << <<"rd_rintsts", m>> >>
                                     \o (IF ErrorClears(cls, m) # {}
                                           THEN << <<"wr_rintsts">> >> ELSE <<>>)
                       /\ Return(Err(cls))
                       /\ UNCHANGED resp
                  ELSE \E regs \in RespFiles :
                         /\ rintsts' = m
                         /\ ops' = ops \o << <<"rd_rintsts", m>> >> \o RespOps(cmd, regs)
                         /\ AfterResp(MakeResponse(cmd, regs))
         ELSE \E regs \in RespFiles :
                /\ ops' = ops \o RespOps(cmd, regs)
                /\ AfterResp(MakeResponse(cmd, regs))
                /\ UNCHANGED rintsts
    /\ UNCHANGED <<scFrame, startCmd, ctrl, dataPhase, cmdlog, wf>>

\* wait_reset(fifo_reset)? at the end of a data command
SC_WaitReset ==
    /\ pc = "sc_fifo_reset"
    /\ \E t \in Tick(timer), c \in CtrlReads(ctrl) :
         LET p == Polled(t = 0, "fifo_reset" \notin c) IN
         /\ wf' = p
         /\ CASE p.out = "timeout" ->
                   /\ Return(Err("WaitReset"))
                   /\ resp' = None
                   /\ UNCHANGED <<ctrl, ops>>
              [] p.out = "again" ->
                   /\ timer' = t
                   /\ ctrl' = c
                   /\ UNCHANGED <<pc, res, resp, ops>>
              [] p.out = "done" ->
                   /\ ctrl' = c
                   /\ Return(resp)
                   /\ resp' = None
                   /\ ops' = Append(ops, <<"fifo_reset_clear">>)
    /\ UNCHANGED <<scFrame, rintsts, startCmd, dataPhase, cmdlog>>

SendCmd == SC_WaitCmdLine \/ SC_WaitDataLine \/ SC_WaitCmdDone \/ SC_Response \/ SC_WaitReset

(***************************************************************************)
(* reset_clock                                                             *)
(***************************************************************************)
EnterResetClock(ena, div) ==
    /\ rcArgs' = [ena |-> ena, div |-> div]
    /\ res' = None
    /\ pc' = "rc_wait1"
    /\ timer' = WaitBudget

\* one poll of one of reset_clock's three wait_for_cmd_line, and the register
\* writes that follow it
ResetClock ==
    /\ pc \in {"rc_wait1", "rc_wait2", "rc_wait3"}
    /\ \E t \in Tick(timer), busy \in CmdBusyReads(startCmd) :
         LET p == Polled(t = 0, ~busy) IN
         /\ wf' = p
         /\ CASE p.out = "timeout" ->
                   /\ Return(Err("WaitCmdLine"))
                   /\ UNCHANGED <<startCmd, dataPhase, cmdlog, clk>>
              [] p.out = "again" ->
                   /\ timer' = t
                   /\ startCmd' = busy
                   /\ UNCHANGED <<pc, res, dataPhase, cmdlog, clk>>
              [] p.out = "done" ->
                   /\ startCmd' = TRUE
                   /\ dataPhase' = FALSE
                   /\ cmdlog' = LogCmd(up_clk)
                   /\ clk' = CASE pc = "rc_wait1" -> [ena |-> 0, div |-> rcArgs.div]
                               [] pc = "rc_wait2" -> clk
                               [] pc = "rc_wait3" -> [clk EXCEPT !.ena = rcArgs.ena]
                   /\ CASE pc = "rc_wait1" /\ rcArgs.ena = 0 ->
                             Return(Ok("unit"))
                        [] pc = "rc_wait1" /\ rcArgs.ena # 0 ->
                             pc' = "rc_wait2" /\ timer' = WaitBudget /\ UNCHANGED res
                        [] pc = "rc_wait2" ->
                             pc' = "rc_wait3" /\ timer' = WaitBudget /\ UNCHANGED res
                        [] pc = "rc_wait3" ->
                             Return(Ok("unit"))
    /\ UNCHANGED <<top, step, cmd, resp, result, calls, rintsts, ctrl,
                   idinten, hostVars, locVars, ops, cntVars>>

(***************************************************************************)
(* Public operations: how each starts.                                     *)
(***************************************************************************)
Begin(op) ==
    /\ top = "idle"
    /\ calls < MaxCalls
    /\ top' = op
    /\ calls' = calls + 1
    /\ result' = None
    /\ cmdlog' = <<>>
    /\ size' = 0 /\ offset' = 0 /\ mask' = {} /\ pend' = None
    /\ ocrPolls' = 0 /\ fifoLog' = <<>> /\ fills' = 0 /\ stopWrites' = 0

(***************************************************************************)
(* DwMmcHost::init                                                         *)
(***************************************************************************)
ResetMask == {"controller_reset", "fifo_reset", "dma_reset"}

\* read HCON, write the reset mask to REG_CTRL, start wait_reset(reset_mask)
CallInit ==
    /\ Begin("init")
    /\ ctrl' = ResetMask
    /\ step' = "reset"
    /\ pc' = "wr_poll"
    /\ timer' = WaitBudget
    /\ cmd' = NoCommand /\ resp' = None /\ res' = None /\ ops' = <<>>
    /\ UNCHANGED <<rintsts, startCmd, dataPhase, cfgVars, hostVars, rcArgs, buflen, wf>>

\* one poll of init's wait_reset(reset_mask)
InitWaitReset ==
    /\ pc = "wr_poll"
    /\ \E t \in Tick(timer), c \in CtrlReads(ctrl) :
         LET p == Polled(t = 0, c \cap ResetMask = {}) IN
         /\ wf' = p
         /\ CASE p.out = "timeout" -> Return(Err("WaitReset")) /\ UNCHANGED ctrl
              [] p.out = "again" -> timer' = t /\ ctrl' = c /\ UNCHANGED <<pc, res>>
              [] p.out = "done" -> ctrl' = c /\ Return(Ok("unit"))
    /\ UNCHANGED <<top, step, cmd, resp, result, calls, rintsts, startCmd, dataPhase,
                   cfgVars, hostVars, locVars, ops, cmdlog, cntVars>>

VersionOk_AnyPattern(c) == c.voltage_accepted = 1

\* check_version's test of the interface-condition response
VersionOk(c) == c.voltage_accepted = 1 /\ c.pattern = 170

\* the order of init's steps
InitOrder == <<"reset", "clk0", "go_idle", "if_cond", "app_cmd", "op_cond", "all_send_cid",
               "send_rca", "send_csd", "select_card", "switch_func", "bus_app",
               "bus_width", "clk1", "done">>

Succ(s) == InitOrder[(CHOOSE i \in 1..Len(InitOrder) : InitOrder[i] = s) + 1]

InitNext_KeepsGoing(s, r) ==
    IF s = "op_cond" /\ r.ok /\ OcrOf(r.v).busy THEN "app_cmd"
    ELSE IF s \in {"go_idle", "if_cond"} THEN Succ(s)
    ELSE IF ~r.ok THEN "fail" ELSE Succ(s)

InitNext_RetriesOcr(s, r) ==
    IF s = "op_cond" /\ ~r.ok THEN "app_cmd"
    ELSE IF ~r.ok THEN "fail"
    ELSE IF s = "if_cond" /\ ~VersionOk(CicOf(r.v)) THEN "fail"
    ELSE IF s = "op_cond" /\ OcrOf(r.v).busy THEN "app_cmd"
    ELSE Succ(s)

\* the step of init that follows step `s` returning `r`: "fail" when init
\* returns an error there, "done" when it returns Ok
InitNext(s, r) ==
    IF ~r.ok THEN "fail"
    ELSE IF s = "if_cond" /\ ~VersionOk(CicOf(r.v)) THEN "fail"
    ELSE IF s = "op_cond" /\ OcrOf(r.v).busy THEN "app_cmd"
    ELSE Succ(s)

\* the error init returns when step `s` returning `r` fails
InitError(s, r) == DeviceErrorFrom(IF ~r.ok THEN r.v ELSE "VoltagePattern")

\* the command a step of init sends, given self.rca
InitCmd(s, a) ==
    CASE s = "go_idle" -> idle
      [] s = "if_cond" -> send_if_cond(1, 170)
      [] s = "app_cmd" -> app_cmd(0)
      [] s = "op_cond" -> sd_send_op_cond(TRUE, TRUE)
      [] s = "all_send_cid" -> all_send_cid
      [] s = "send_rca" -> send_relative_address
      [] s = "send_csd" -> send_csd(a.address)
      [] s = "select_card" -> select_card(a.address)
      [] s = "switch_func" -> switch_function(16777201)
      [] s = "bus_app" -> app_cmd(a.address)
      [] s = "bus_width" -> set_bus_width(2)

InitStore_KeepsRca(s, r) ==
    /\ cic' = IF s = "if_cond" /\ r.ok THEN CicOf(r.v) ELSE cic
    /\ ocr' = IF s = "op_cond" /\ r.ok /\ ~OcrOf(r.v).busy THEN OcrOf(r.v) ELSE ocr
    /\ cid' = IF s = "all_send_cid" /\ r.ok THEN CidOf(r.v) ELSE cid
    /\ rca' = rca
    /\ csd' = IF s = "send_csd" /\ r.ok THEN CsdOf(r.v) ELSE csd

\* the assignments to self.cic .. self.rca when step `s` has returned `r`
\* and init goes on
InitStore(s, r) ==
    /\ cic' = IF s = "if_cond" /\ r.ok THEN CicOf(r.v) ELSE cic
    /\ ocr' = IF s = "op_cond" /\ r.ok /\ ~OcrOf(r.v).busy THEN OcrOf(r.v) ELSE ocr
    /\ cid' = IF s = "all_send_cid" /\ r.ok THEN CidOf(r.v) ELSE cid
    /\ rca' = IF s = "send_rca" /\ r.ok THEN RcaOf(r.v) ELSE rca
    /\ csd' = IF s = "send_csd" /\ r.ok THEN CsdOf(r.v) ELSE csd

\* a step of init has returned: `?`, the field assignment, and the next call
InitStep ==
    /\ top = "init" /\ pc = "ret"
    /\ LET n == InitNext(step, res) IN
       CASE n = "fail" ->
              /\ top' = "idle" /\ pc' = "idle"
              /\ result' = Err(InitError(step, res))
              /\ UNCHANGED <<step, timer, cmd, resp, res, rintsts, cfgVars, hostVars,
                             rcArgs, ops, ocrPolls>>
         [] n = "done" ->
              /\ top' = "idle" /\ pc' = "idle"
              /\ step' = n
              /\ idinten' = {"ri", "ti"}
              /\ result' = Ok("unit")
              /\ UNCHANGED <<timer, cmd, resp, res, rintsts, clk, hostVars, rcArgs,
                             ops, ocrPolls>>
         [] n \in {"clk0", "clk1"} ->
              /\ step' = n
              /\ EnterResetClock(1, IF n = "clk0" THEN 62 ELSE 1)
              /\ UNCHANGED <<top, cmd, resp, result, rintsts, cfgVars, hostVars, ops,
                             ocrPolls>>
         [] n = "go_idle" ->
              \* TMOUT, RINTSTS <- all, INTMASK, CTYPE, IDINTEN <- 0, BMOD
              /\ step' = n
              /\ rintsts' = WriteToClear(rintsts, AllBits)
              /\ idinten' = {}
              /\ EnterSendCmd(InitCmd(n, rca))
              /\ UNCHANGED <<top, result, clk, hostVars, rcArgs, ocrPolls>>
         [] OTHER ->
              /\ step' = n
              /\ InitStore(step, res)
              /\ EnterSendCmd(InitCmd(n, rca'))
              /\ ocrPolls' = IF n = "app_cmd" /\ ocrPolls <= MaxOcrPolls
                               THEN ocrPolls + 1 ELSE ocrPolls
              /\ UNCHANGED <<top, result, rintsts, cfgVars, rcArgs>>
    /\ UNCHANGED <<calls, startCmd, ctrl, dataPhase, buflen, size, offset, mask, pend,
                   cmdlog, wf, fifoLog, fills, stopWrites>>

(***************************************************************************)
(* read_data, write_data                                                   *)
(***************************************************************************)
\* Interrupt::check: the error for the first fault bit of the mask, "none"
\* without one
FaultBits == {"rto", "re", "rcrc", "hle"}
CheckFault(m) ==
    CASE "rto" \in m -> "ResponseTimeout"
      [] "re" \in m -> "ResponseErr"
      [] "rcrc" \in m -> "ResponseCrc"
      [] "hle" \in m -> "HardwareLocked"
      [] OTHER -> "none"

\* the test that leaves read_data's loop
ReadDone_DtoAlone(off, sz, m) == "dto" \in m

ReadDone(off, sz, m) == off = sz /\ "dto" \in m

\* the test that leaves write_data's loop
WriteDone(m) == "dto" \in m

\* BLKSIZ and BYTCNT are programmed, the countdown starts
EnterData(dir) ==
    /\ size' = (buflen \div BlockSize) * BlockSize
    /\ offset' = 0
    /\ mask' = {}
    /\ res' = None
    /\ timer' = DataBudget
    /\ pc' = IF dir = "read" THEN "rd_loop" ELSE "wd_loop"

\* what the transfers leave alone
dataFrame == <<top, step, cmd, resp, result, calls, startCmd, ctrl, dataPhase,
               cfgVars, hostVars, rcArgs, buflen, size, pend, ops, cmdlog, wf,
               ocrPolls, stopWrites>>

\* one turn of read_data's loop, up to the drain of the FIFO
RD_Loop ==
    /\ pc = "rd_loop"
    /\ \E m \in RintstsReads(rintsts, dataPhase), t \in Tick(timer) :
         /\ mask' = m
         /\ rintsts' = m
         /\ IF ReadDone(offset, size, m)
              THEN pc' = "data_exit" /\ UNCHANGED <<res, timer>>
            ELSE IF CheckFault(m) # "none"
              THEN Return(Err(CheckFault(m)))
            ELSE IF t = 0
              THEN Return(Err("DataTransferTimeout"))
            ELSE /\ timer' = t
                 /\ pc' = IF m \cap {"rxdr", "dto"} # {} THEN "rd_drain" ELSE "rd_loop"
                 /\ UNCHANGED res
    /\ UNCHANGED <<dataFrame, offset, fifoLog, fills>>

\* one turn of the drain: read the FIFO count from REG_STATUS, then either one
\* byte into buf[offset], or the rxdr acknowledge.  buf[offset] past the end of
\* the buffer panics.
RD_Drain ==
    /\ pc = "rd_drain"
    /\ \E nonempty \in BOOLEAN :
         IF nonempty
           THEN IF offset >= buflen
                  THEN pc' = "panic" /\ UNCHANGED <<offset, rintsts>>
                  ELSE offset' = offset + 1 /\ UNCHANGED <<pc, rintsts>>
           ELSE /\ rintsts' = WriteToClear(rintsts, {"rxdr"})
                /\ pc' = "rd_loop"
                /\ UNCHANGED offset
    /\ UNCHANGED <<dataFrame, res, timer, mask, fifoLog, fills>>

\* one turn of write_data's loop
WD_Loop ==
    /\ pc = "wd_loop"
    /\ \E m \in RintstsReads(rintsts, dataPhase), t \in Tick(timer) :
         /\ mask' = m
         /\ IF WriteDone(m)
              THEN /\ pc' = "data_exit" /\ rintsts' = m
                   /\ UNCHANGED <<res, timer, fifoLog, fills>>
            ELSE IF CheckFault(m) # "none"
              THEN /\ Return(Err(CheckFault(m))) /\ rintsts' = m
                   /\ UNCHANGED <<fifoLog, fills>>
            ELSE IF t = 0
              THEN /\ Return(Err("DataTransferTimeout")) /\ rintsts' = m
                   /\ UNCHANGED <<fifoLog, fills>>
            ELSE /\ timer' = t
                 /\ UNCHANGED <<pc, res>>
                 /\ IF "txdr" \in m
                      THEN /\ fifoLog' = IF fills < MaxFills
                                           THEN fifoLog \o [i \in 1..size |-> i - 1]
                                           ELSE fifoLog
                           /\ fills' = IF fills <= MaxFills THEN fills + 1 ELSE fills
                           /\ rintsts' = WriteToClear(m, {"txdr"})
                      ELSE /\ rintsts' = m
                           /\ UNCHANGED <<fifoLog, fills>>
    /\ UNCHANGED <<dataFrame, offset>>

\* after the loop: REG_RINTSTS is read and written back
DataExit ==
    /\ pc = "data_exit"
    /\ \E m \in RintstsReads(rintsts, dataPhase) :
         rintsts' = WriteToClear(m, m)
    /\ Return(Ok("unit"))
    /\ UNCHANGED <<dataFrame, offset, mask, fifoLog, fills>>

(***************************************************************************)
(* stop_transmission_ops                                                   *)
(***************************************************************************)
EnterStop ==
    /\ pc' = "st_cmd_line"
    /\ res' = None
    /\ timer' = WaitBudget
    /\ stopWrites' = 0

\* the test that leaves stop_transmission_ops' loop
StopAccepted_Always(m) == TRUE

StopAccepted(m) == "hle" \notin m

\* one poll of the loop's wait_for_cmd_line; when the line is idle, the stop
\* command is written and REG_RINTSTS is read for the hardware-locked error
ST_WaitCmdLine ==
    /\ pc = "st_cmd_line"
    /\ \E t \in Tick(timer), busy \in CmdBusyReads(startCmd) :
         LET p == Polled(t = 0, ~busy) IN
         /\ wf' = p
         /\ CASE p.out = "timeout" ->
                   /\ Return(Err("WaitCmdLine"))
                   /\ UNCHANGED <<rintsts, startCmd, dataPhase, cmdlog, stopWrites>>
              [] p.out = "again" ->
                   /\ timer' = t
                   /\ startCmd' = busy
                   /\ UNCHANGED <<pc, res, rintsts, dataPhase, cmdlog, stopWrites>>
              [] p.out = "done" ->
                   /\ startCmd' = TRUE
                   /\ dataPhase' = FALSE
                   /\ cmdlog' = LogCmd(stop_transmission)
                   /\ stopWrites' = IF stopWrites <= MaxStops THEN stopWrites + 1
                                                              ELSE stopWrites
                   /\ timer' = WaitBudget
                   /\ UNCHANGED res
                   /\ \E m \in RintstsReads(WriteToClear(rintsts, AllBits), FALSE) :
                        /\ rintsts' = m
                        /\ pc' = IF StopAccepted(m) THEN "st_cmd_done" ELSE "st_cmd_line"
    /\ UNCHANGED <<top, step, cmd, resp, result, calls, ctrl, cfgVars, hostVars,
                   locVars, ops, ocrPolls, fifoLog, fills>>

\* read RESP0 (discarded), then wait_for_cmd_done()?
ST_WaitCmdDone ==
    /\ pc = "st_cmd_done"
    /\ \E t \in Tick(timer), m \in RintstsReads(rintsts, dataPhase) :
         LET p == Polled(t = 0, "cmd" \in m) IN
         /\ wf' = p
         /\ CASE p.out = "timeout" -> Return(Err("WaitCmdDone")) /\ UNCHANGED rintsts
              [] p.out = "again" -> timer' = t /\ rintsts' = m /\ UNCHANGED <<pc, res>>
              [] p.out = "done" -> rintsts' = m /\ Return(Ok("unit"))
    /\ UNCHANGED <<top, step, cmd, resp, result, calls, startCmd, ctrl, dataPhase,
                   cfgVars, hostVars, locVars, ops, cmdlog, cntVars>>

(***************************************************************************)
(* DwMmcHost::read_block, DwMmcHost::write_block                           *)
(***************************************************************************)
\* lengths of the buffers handed in
BufLens == 0..MaxBufLen

CallReadBlock ==
    /\ Begin("read_block")
    /\ \E len \in BufLens : buflen' = len
    /\ step' = "cmd"
    /\ EnterSendCmd(read_single_block(0))
    /\ UNCHANGED <<hwVars, cfgVars, hostVars, rcArgs, wf>>

CallWriteBlock ==
    /\ Begin("write_block")
    /\ \E len \in BufLens : buflen' = len
    /\ step' = "cmd"
    /\ EnterSendCmd(write_single_block(0))
    /\ UNCHANGED <<hwVars, cfgVars, hostVars, rcArgs, wf>>

\* what read_block / write_block do when the call of step `s` has returned `r`:
\* "data" (start the transfer), "stop" (start the recovery) or "return"
BlockNext(s, r) ==
    CASE s = "cmd" -> IF r.ok THEN "data" ELSE "stop"
      [] s = "data" -> IF r.ok THEN "return" ELSE "stop"
      [] s = "stop" -> "return"

\* the value read_block / write_block return when they return at step `s`, whose
\* call returned `r`
BlockResult_OkAfterRecovery(s, r) ==
    IF s = "stop" /\ ~r.ok THEN Err(DeviceErrorFrom(r.v)) ELSE Ok("unit")

BlockResult(s, r) ==
    IF s = "stop"
      THEN IF r.ok THEN Err(IoError) ELSE Err(DeviceErrorFrom(r.v))
      ELSE IF r.ok THEN Ok("unit") ELSE Err(IoError)

\* a call made by read_block / write_block has returned
BlockStep ==
    /\ top \in {"read_block", "write_block"} /\ pc = "ret"
    /\ LET n == BlockNext(step, res) IN
       CASE n = "data" ->
              /\ step' = "data"
              /\ EnterData(IF top = "read_block" THEN "read" ELSE "write")
              /\ ops' = <<>>
              /\ fifoLog' = <<>> /\ fills' = 0
              /\ UNCHANGED <<top, result, resp, pend, buflen, stopWrites>>
         [] n = "stop" ->
              /\ step' = "stop"
              /\ pend' = res
              /\ EnterStop
              /\ ops' = <<>> /\ resp' = None
              /\ buflen' = 0 /\ size' = 0 /\ offset' = 0 /\ mask' = {}
              /\ fifoLog' = <<>> /\ fills' = 0
              /\ UNCHANGED <<top, result>>
         [] n = "return" ->
              /\ top' = "idle" /\ pc' = "idle"
              /\ result' = BlockResult(step, res)
              /\ UNCHANGED <<step, timer, res, resp, pend, buflen, size, offset, mask,
                             ops, stopWrites, fifoLog, fills>>
    /\ UNCHANGED <<cmd, calls, hwVars, cfgVars, hostVars, rcArgs, cmdlog, wf, ocrPolls>>

(***************************************************************************)
(* MmcOperate's methods called on their own.                               *)
(***************************************************************************)
CallSendCmd ==
    /\ Begin("send_cmd")
    /\ \E c \in AnyCommands : EnterSendCmd(c)
    /\ step' = "none"
    /\ UNCHANGED <<hwVars, cfgVars, hostVars, rcArgs, buflen, wf>>

CallStop ==
    /\ Begin("stop_transmission_ops")
    /\ pc' = "st_cmd_line"
    /\ timer' = WaitBudget
    /\ step' = "none"
    /\ cmd' = NoCommand /\ resp' = None /\ res' = None /\ ops' = <<>>
    /\ UNCHANGED <<hwVars, cfgVars, hostVars, rcArgs, buflen, wf>>

CallResetClock ==
    /\ Begin("reset_clock")
    /\ \E ena \in {0, 1}, div \in {1, 62} : EnterResetClock(ena, div)
    /\ step' = "none"
    /\ cmd' = NoCommand /\ resp' = None /\ ops' = <<>>
    /\ UNCHANGED <<hwVars, cfgVars, hostVars, buflen, wf>>

\* the method returns to its caller
Ret ==
    /\ top \in {"send_cmd", "stop_transmission_ops", "reset_clock"} /\ pc = "ret"
    /\ top' = "idle"
    /\ pc' = "idle"
    /\ result' = res
    /\ UNCHANGED <<step, timer, cmd, resp, res, calls, hwVars, cfgVars, hostVars,
                   locVars, ops, cmdlog, wf, cntVars>>

(***************************************************************************)
(* Specifications.                                                         *)
(***************************************************************************)
\* DwMmcHost::new touches no register: the controller is in whatever state it
\* was left in.
Init ==
    /\ top = "idle" /\ step = "none" /\ pc = "idle"
    /\ timer = 0
    /\ cmd = NoCommand
    /\ resp = None /\ res = None /\ result = None
    /\ calls = 0
    /\ rintsts = {}
    /\ startCmd \in BOOLEAN
    /\ ctrl \in SUBSET {"fifo_reset"}
    /\ dataPhase = FALSE
    /\ clk = [ena |-> 0, div |-> 0]
    /\ idinten = {}
    /\ cic = NewCic /\ ocr = NewOcr /\ cid = NewCid /\ csd = NewCsd /\ rca = NewRca
    /\ rcArgs = [ena |-> 0, div |-> 0]
    /\ buflen = 0 /\ size = 0 /\ offset = 0 /\ mask = {} /\ pend = None
    /\ ops = <<>> /\ cmdlog = <<>>
    /\ wf = Polled(FALSE, FALSE)
    /\ ocrPolls = 0 /\ fifoLog = <<>> /\ fills = 0 /\ stopWrites = 0

\* send_cmd on its own, with every combination of a Command's flags
NextSend == CallSendCmd \/ SendCmd \/ Ret

SpecSend == Init /\ [][NextSend]_vars

\* init
NextInit ==
    \/ CallInit \/ InitWaitReset \/ ResetClock \/ InitStep
    \/ SC_WaitCmdLine \/ SC_WaitCmdDone \/ SC_Response

SpecInit == Init /\ [][NextInit]_vars

\* read_block and write_block
NextBlock ==
    \/ CallReadBlock \/ CallWriteBlock \/ BlockStep
    \/ SendCmd
    \/ RD_Loop \/ RD_Drain \/ WD_Loop \/ DataExit
    \/ ST_WaitCmdLine \/ ST_WaitCmdDone

SpecBlock == Init /\ [][NextBlock]_vars

\* stop_transmission_ops on its own
NextStop == CallStop \/ ST_WaitCmdLine \/ ST_WaitCmdDone \/ Ret

SpecStop == Init /\ [][NextStop]_vars

\* the ticker keeps advancing: a countdown that is being polled goes down
TickAdvance == NextStop /\ timer' < timer

\* stop_transmission_ops, run on and timed by a ticker that advances
FairStop == SpecStop /\ WF_vars(NextStop) /\ WF_vars(TickAdvance)

\* every operation
Next ==
    \/ CallInit \/ InitWaitReset \/ InitStep
    \/ CallReadBlock \/ CallWriteBlock \/ BlockStep
    \/ CallSendCmd \/ CallStop \/ CallResetClock \/ Ret
    \/ SendCmd \/ ResetClock
    \/ RD_Loop \/ RD_Drain \/ WD_Loop \/ DataExit
    \/ ST_WaitCmdLine \/ ST_WaitCmdDone

Spec == Init /\ [][Next]_vars

(***************************************************************************)
(* Properties.                                                             *)
(***************************************************************************)
Kinds(log) == [i \in 1..Len(log) |-> log[i][1]]
IsPrefix(s, t) == Len(s) <= Len(t) /\ \A i \in 1..Len(s) : s[i] = t[i]

\* the masks the response phase read from REG_RINTSTS, and the reads of the
\* response registers, as `ops` has them
MasksRead == {ops[i][2] : i \in {j \in DOMAIN ops : ops[j][1] = "rd_rintsts"}}
IsRespRead(e) == e[1] \in {"rd_resp0", "rd_resp1", "rd_resp2", "rd_resp3"}
RespReads == SelectSeq(ops, IsRespRead)
Words(s) == [i \in 1..Len(s) |-> s[i][2]]

\* ---- C1 ----------------------------------------------------------------
ClockProgram == <<"up_clk", "up_clk", "up_clk">>
OcrTurns(n) == [i \in 1..(2 * n) |-> IF i % 2 = 1 THEN "app_cmd" ELSE "sd_send_op_cond"]
\* the REG_CMD writes of a whole init whose OCR poll took n turns
InitCommands(n) ==
    ClockProgram \o <<"go_idle", "send_if_cond">> \o OcrTurns(n)
      \o <<"all_send_cid", "send_relative_address", "send_csd", "select_card",
           "switch_function", "app_cmd", "set_bus_width">>
      \o ClockProgram

\* a step of init has failed
InitStepFails ==
    /\ top = "init" /\ pc = "ret"
    /\ \/ ~res.ok
       \/ step = "if_cond" /\ ~VersionOk(CicOf(res.v))

\* C1: in every run of init the commands are written to REG_CMD in the order
\* go-idle, send-interface-condition, (app-command, send-op-condition)+,
\* all-send-CID, send-relative-address, send-CSD, select-card, switch-function,
\* app-command, set-bus-width, clock reprogram, and the interrupt sources are
\* enabled last; when a step fails init returns there, with that step's error,
\* and no further command is written.
C1_InitOrderedAndCut ==
    /\ [](\E n \in 1..MaxOcrPolls : IsPrefix(Kinds(cmdlog), InitCommands(n)))
    /\ [][InitStepFails =>
            /\ top' = "idle"
            /\ cmdlog' = cmdlog
            /\ idinten' = idinten
            /\ ~result'.ok
            /\ result'.v = DeviceErrorFrom(IF ~res.ok THEN res.v ELSE "VoltagePattern")]_vars
    /\ [][top = "init" =>
            IF top' = "idle" /\ result'.ok
              THEN /\ \E n \in 1..MaxOcrPolls : Kinds(cmdlog) = InitCommands(n)
                   /\ idinten' = {"ri", "ti"}
              ELSE idinten' \in {idinten, {}}]_vars

\* init has returned the response error of the send-CSD step, after the
\* commands up to send-CSD and none of the later ones
C1_FailsAtCsd ==
    /\ top = "idle" /\ calls > 0 /\ step = "send_csd"
    /\ ~result.ok /\ result.v = DeviceErrorFrom("ResponseErr")
    /\ cmdlog[Len(cmdlog)][1] = "send_csd"

\* ---- C2 ----------------------------------------------------------------
\* C2: no operation blocks indefinitely: with a ticker that keeps advancing,
\* an operation that has been called eventually returns a result; it neither
\* panics nor retries for ever.
C2_EventuallyReturns == (top # "idle") ~> (top = "idle")

\* ---- C3 ----------------------------------------------------------------
\* C3: a transfer whose status read holds a fault bit returns an error on
\* that turn of the loop: it does not leave the loop as complete, and it
\* does not return Ok.
C3_FaultAborts ==
    (/\ top \in {"read_block", "write_block"} /\ step = "data"
     /\ pc \in {"data_exit", "ret"}
     /\ mask \cap FaultBits # {})
      => (pc = "ret" /\ ~res.ok)

\* ---- C4 ----------------------------------------------------------------
\* C4: read_data leaves its loop for the Ok return only on a turn whose
\* status read holds the transfer-complete bit and with as many bytes drained
\* as blk * blk_sz.
C4_ReadOkOnlyWhenComplete ==
    (/\ top = "read_block" /\ step = "data"
     /\ (pc = "data_exit" \/ (pc = "ret" /\ res.ok)))
      => ("dto" \in mask /\ offset = size)

\* read_data has returned Ok for a transfer of at least one byte
C4_WholeBlockRead ==
    /\ top = "read_block" /\ step = "data" /\ pc = "ret" /\ res.ok
    /\ size > 0 /\ offset = size

\* ---- C5 ----------------------------------------------------------------
Timeouts == {"WaitCmdLine", "WaitDataLine", "WaitCmdDone", "WaitReset"}

\* C5: wait_for returns true exactly when a poll taken before the countdown
\* expired found the predicate true; once the countdown has expired it returns
\* false, whatever the predicate holds.
C5_WaitForNoLateSuccess ==
    /\ wf.out = "done" <=> (~wf.expired /\ wf.pred)
    /\ wf.out = "timeout" <=> wf.expired
    /\ (top = "send_cmd" /\ pc = "ret")
         => ((~res.ok /\ res.v \in Timeouts) <=> wf.out = "timeout")

\* a wait has returned false at a poll where the countdown had expired and the
\* predicate held
C5_ExpiredWhileTrue ==
    /\ top = "send_cmd" /\ pc = "ret"
    /\ wf.expired /\ wf.pred
    /\ ~res.ok /\ res.v \in Timeouts

\* ---- C6 ----------------------------------------------------------------
RespFaults == {"rto", "re", "rcrc"}

\* C6: for a response-expecting command the mask read in the response phase
\* is classified with the priority response-timeout, response-error,
\* response-CRC, and in each of the three cases send_cmd returns the error
\* without a read of a response register.
C6_ClassificationPriority ==
    (top = "send_cmd" /\ pc = "ret" /\ cmd.resp_exp) =>
      \A m \in MasksRead :
        /\ "rto" \in m => (~res.ok /\ res.v = "ResponseTimeout")
        /\ ("rto" \notin m /\ "re" \in m) => (~res.ok /\ res.v = "ResponseErr")
        /\ ("rto" \notin m /\ "re" \notin m /\ "rcrc" \in m)
             => (~res.ok /\ res.v = "ResponseCrc")
        /\ m \cap RespFaults # {} => RespReads = <<>>

\* send_cmd has returned ResponseTimeout for a mask that also held the CRC bit
C6_TimeoutOverCrc ==
    /\ top = "send_cmd" /\ pc = "ret" /\ cmd.resp_exp
    /\ \E m \in MasksRead : {"rto", "rcrc"} \subseteq m
    /\ ~res.ok /\ res.v = "ResponseTimeout"

\* ---- C7 ----------------------------------------------------------------
\* C7: a send_cmd of a command whose resp_exp is false reads no response
\* register and classifies no interrupt mask, and when it completes it
\* returns Rz.
C7_NoResponseExpected ==
    (top = "send_cmd" /\ ~cmd.resp_exp) =>
      /\ MasksRead = {}
      /\ RespReads = <<>>
      /\ (pc = "ret" /\ res.ok) => (res.v.kind = "Rz" /\ res.v.w = <<>>)

\* send_cmd has returned Rz with fault bits standing in REG_RINTSTS
C7_RzDespiteFaults ==
    /\ top = "send_cmd" /\ pc = "ret" /\ ~cmd.resp_exp /\ cmd.resp_lang
    /\ res.ok /\ res.v.kind = "Rz"
    /\ {"rto", "rcrc"} \subseteq rintsts

\* ---- C8 ----------------------------------------------------------------
\* C8: a successful response-expecting send_cmd of a long-response command
\* reads RESP0, RESP1, RESP2, RESP3, each once and in that order, and returns
\* R136 of the four words in that order; of a short-response command it reads
\* RESP0 once and returns R48 of that word.
C8_ResponseWords ==
    (top = "send_cmd" /\ pc = "ret" /\ res.ok /\ cmd.resp_exp) =>
      /\ Kinds(RespReads) = IF cmd.resp_lang
                              THEN <<"rd_resp0", "rd_resp1", "rd_resp2", "rd_resp3">>
                              ELSE <<"rd_resp0">>
      /\ res.v.kind = IF cmd.resp_lang THEN "R136" ELSE "R48"
      /\ res.v.w = Words(RespReads)

\* send_cmd has returned a long response of four words
C8_LongResponse ==
    /\ top = "send_cmd" /\ pc = "ret" /\ res.ok
    /\ cmd.resp_exp /\ cmd.resp_lang
    /\ Len(res.v.w) = 4 /\ res.v.w[1] # res.v.w[2]

\* ---- C9 ----------------------------------------------------------------
\* the failure read_block / write_block recover from
Failure == IF step = "stop" THEN pend ELSE res
ReadReturned == calls > 0 /\ top = "idle" /\ cmd.kind = "read_single_block"
CrcFailure == ~Failure.ok /\ Failure.v = "ResponseCrc"

\* C9 (as stated): a read_block that met the CRC error returns the I/O error,
\* with exactly one write of the stop command.
C9_OneStopOnCrc ==
    (ReadReturned /\ CrcFailure) =>
      (~result.ok /\ result.v = IoError /\ stopWrites = 1)

\* C9 (amended): a read_block whose command or transfer returned the CRC
\* error returns an error: the I/O error when the recovery returned Ok, which
\* takes at least one write of the stop command, and else the timeout of the
\* recovery's wait.  The stop command is written again only after a write that
\* left the hardware-locked bit set, and the recovery goes on to the
\* command-done wait only from a write that left it clear.
C9_StopOnCrc ==
    /\ []((ReadReturned /\ CrcFailure) =>
            /\ ~result.ok
            /\ result.v = (IF res.ok THEN IoError ELSE DeviceErrorFrom(res.v))
            /\ ~res.ok => res.v \in {"WaitCmdLine", "WaitCmdDone"}
            /\ res.ok => stopWrites >= 1)
    /\ []((step = "stop" /\ pc = "st_cmd_line" /\ stopWrites >= 1) => "hle" \in rintsts)
    /\ [][(step = "stop" /\ pc = "st_cmd_line" /\ pc' = "st_cmd_done")
            => "hle" \notin rintsts']_vars

\* read_block has returned the I/O error for a CRC error, after one stop command
C9_CrcThenOneStop ==
    /\ ReadReturned /\ CrcFailure
    /\ ~result.ok /\ result.v = IoError
    /\ stopWrites = 1

\* ---- C10 ---------------------------------------------------------------
BlockOps == {"read_block", "write_block"}
BlockReturned ==
    calls > 0 /\ top = "idle" /\ cmd.kind \in {"read_single_block", "write_single_block"}

\* C10: in read_block and write_block a failed command or transfer is followed
\* by stop_transmission_ops before the return; the call then returns the I/O
\* error when the recovery returned Ok and the recovery's error when it did
\* not; it returns Ok only when neither the command nor the transfer failed.
C10_RecoveryBeforeFailure ==
    /\ [][(top \in BlockOps /\ pc = "ret" /\ step \in {"cmd", "data"} /\ ~res.ok)
            => (top' = top /\ step' = "stop" /\ pc' = "st_cmd_line" /\ pend' = res)]_vars
    /\ [](BlockReturned =>
            IF step = "stop"
              THEN /\ ~pend.ok
                   /\ ~result.ok
                   /\ result.v = (IF res.ok THEN IoError ELSE DeviceErrorFrom(res.v))
              ELSE step = "data" /\ res.ok /\ result.ok)

\* write_block has returned the recovery's own timeout after a transfer that
\* timed out
C10_RecoveryFailed ==
    /\ BlockReturned /\ cmd.kind = "write_single_block" /\ step = "stop"
    /\ ~pend.ok /\ pend.v = "DataTransferTimeout"
    /\ ~res.ok /\ result = Err(DeviceErrorFrom("WaitCmdDone"))

\* ---- C11 ---------------------------------------------------------------
\* the interface-condition step has returned a response whose pattern is not 0xAA
WrongPattern ==
    step = "if_cond" /\ res.ok /\ CicOf(res.v).pattern # 170

\* C11: when the interface-condition response does not carry the pattern 0xAA,
\* init returns the voltage/pattern error there, and the send-interface-condition
\* command is the last command written in that run.
C11_WrongPatternStopsInit ==
    /\ [][(top = "init" /\ pc = "ret" /\ WrongPattern) =>
            /\ top' = "idle"
            /\ ~result'.ok /\ result'.v = DeviceErrorFrom("VoltagePattern")
            /\ cmdlog' = cmdlog]_vars
    /\ []((top = "idle" /\ calls > 0 /\ WrongPattern) =>
            /\ ~result.ok /\ result.v = DeviceErrorFrom("VoltagePattern")
            /\ Kinds(cmdlog) = ClockProgram \o <<"go_idle", "send_if_cond">>)

\* init has returned the voltage/pattern error for a response with pattern 0x55
\* and the voltage accepted
C11_Pattern55 ==
    /\ top = "idle" /\ calls > 0 /\ WrongPattern
    /\ CicOf(res.v).pattern = 85 /\ CicOf(res.v).voltage_accepted = 1
    /\ ~result.ok /\ result.v = DeviceErrorFrom("VoltagePattern")

\* ---- C12 ---------------------------------------------------------------
\* C12: when init returns an error, the cached CIC, OCR, CID, CSD and RCA are
\* what they were before the call (here: the values DwMmcHost::new gave them),
\* whichever step failed.
C12_NoPartialState ==
    (top = "idle" /\ calls = 1 /\ ~result.ok) =>
      (/\ cic = NewCic /\ ocr = NewOcr /\ cid = NewCid
       /\ csd = NewCsd /\ rca = NewRca)

\* ---- C13 ---------------------------------------------------------------
\* a step of init has returned Ok, with an accepted interface condition
InitStepSucceeds ==
    /\ top = "init" /\ pc = "ret" /\ res.ok
    /\ step = "if_cond" => VersionOk(CicOf(res.v))

\* C13: as long as no step fails init goes on and in the end returns Ok; the
\* RCA it caches is the one decoded from the send-relative-address response, and
\* that RCA is the argument of the send-CSD and select-card commands that
\* follow.
C13_RcaCachedAndUsed ==
    /\ [][InitStepSucceeds => (top' = "init" \/ (step = "clk1" /\ result'.ok))]_vars
    /\ [][(InitStepSucceeds /\ step = "send_rca") =>
            /\ rca' = RcaOf(res.v)
            /\ cmd' = send_csd(RcaOf(res.v).address)]_vars
    /\ [][(InitStepSucceeds /\ step = "send_csd") =>
            /\ rca' = rca
            /\ cmd' = select_card(rca.address)]_vars
    /\ []((top = "idle" /\ calls > 0 /\ result.ok) =>
            /\ \E i \in DOMAIN cmdlog : cmdlog[i] = <<"send_csd", rca.address>>
            /\ \E i \in DOMAIN cmdlog : cmdlog[i] = <<"select_card", rca.address>>
            /\ \A i \in DOMAIN cmdlog :
                 cmdlog[i][1] \in {"send_csd", "select_card"} => cmdlog[i][2] = rca.address)

\* init has returned Ok with the RCA 2 of the response cached and sent
C13_InitOkRca2 ==
    /\ top = "idle" /\ calls > 0 /\ result.ok
    /\ rca.address = 2
    /\ \E i \in DOMAIN cmdlog : cmdlog[i] = <<"send_csd", 2>>
    /\ \E i \in DOMAIN cmdlog : cmdlog[i] = <<"select_card", 2>>

\* ---- C14 ---------------------------------------------------------------
\* C14: a send_cmd of a command with a data phase writes the fifo-reset bit to
\* REG_CTRL and then waits for the bit to clear before it returns Ok; when
\* the bit does not clear within the budget it returns Timeout::WaitReset.
C14_FifoResetIssued ==
    (top = "send_cmd" /\ pc = "ret" /\ cmd.data_exp) =>
      /\ res.ok =>
           \E i, j \in DOMAIN ops :
             /\ i < j
             /\ ops[i] = <<"wr_ctrl_fifo_reset">>
             /\ ops[j] = <<"fifo_reset_clear">>
      /\ (~res.ok /\ res.v = "WaitReset") => (wf.out = "timeout")

\* ---- C15 ---------------------------------------------------------------
\* the register operations of send_cmd up to the write of REG_CMD
CmdPhase(c) ==
    <<"cmd_line_idle", "wr_rintsts_all">>
      \o (IF c.data_exp THEN <<"data_line_idle">> ELSE <<>>)
      \o <<"wr_cmdarg", "wr_cmd">>

\* C15: the register operations of a send_cmd are, in this order: command line
\* seen idle, write-to-clear of all of REG_RINTSTS, data line seen idle (for a
\* data command only), write of REG_CMDARG, write of REG_CMD; REG_CMD is
\* written at most once; a timeout of the command-line wait or of the
\* data-line wait returns WaitCmdLine / WaitDataLine with neither REG_CMDARG nor
\* REG_CMD written.
C15_SendOrder ==
    top = "send_cmd" =>
      /\ IsPrefix(Kinds(ops), CmdPhase(cmd)) \/ IsPrefix(CmdPhase(cmd), Kinds(ops))
      /\ Cardinality({i \in DOMAIN ops : ops[i][1] = "wr_cmd"}) <= 1
      /\ pc \in {"sc_cmd_done", "sc_resp", "sc_fifo_reset"}
           => IsPrefix(CmdPhase(cmd), Kinds(ops))
      /\ (pc = "ret" /\ ~res.ok /\ res.v = "WaitCmdLine") => ops = <<>>
      /\ (pc = "ret" /\ ~res.ok /\ res.v = "WaitDataLine")
           => Kinds(ops) = <<"cmd_line_idle", "wr_rintsts_all">>

\* a data command has been sent and answered: all five operations, in order
C15_DataCommandSent ==
    /\ top = "send_cmd" /\ pc = "ret" /\ cmd.data_exp /\ res.ok
    /\ IsPrefix(CmdPhase(cmd), Kinds(ops))
    /\ Len(CmdPhase(cmd)) = 5

\* ---- C16 ---------------------------------------------------------------
\* a command of the OCR poll has returned
OcrPollReturns == top = "init" /\ pc = "ret" /\ step \in {"app_cmd", "op_cond"}

\* C16: the OCR poll sends the app-command and, when that succeeded, the
\* send-op-condition; it sends the pair again while the returned OCR is busy,
\* and leaves the loop, caching the OCR, only with one that is not busy; an
\* error of either command ends init with that error.  In the commands
\* written every send-op-condition comes right after an app-command.
C16_OcrPoll ==
    /\ [][(OcrPollReturns /\ ~res.ok) =>
            /\ top' = "idle"
            /\ ~result'.ok /\ result'.v = DeviceErrorFrom(res.v)
            /\ cmdlog' = cmdlog]_vars
    /\ [][(OcrPollReturns /\ res.ok /\ step = "app_cmd") =>
            (step' = "op_cond" /\ cmd' = sd_send_op_cond(TRUE, TRUE))]_vars
    /\ [][(OcrPollReturns /\ res.ok /\ step = "op_cond") =>
            IF OcrOf(res.v).busy
              THEN step' = "app_cmd" /\ cmd' = app_cmd(0) /\ ocr' = ocr
              ELSE step' = "all_send_cid" /\ ocr' = OcrOf(res.v)]_vars
    /\ [](\A i \in DOMAIN cmdlog :
            cmdlog[i][1] = "sd_send_op_cond" => (i > 1 /\ cmdlog[i - 1][1] = "app_cmd"))

\* the poll has been left on its second turn, the first OCR having been busy
C16_SecondTurnNotBusy ==
    /\ top = "init" /\ step = "all_send_cid" /\ ocrPolls = 2
    /\ ~ocr.busy
    /\ Kinds(cmdlog) = ClockProgram \o <<"go_idle", "send_if_cond">> \o OcrTurns(2)
                         \o <<"all_send_cid">>

\* ---- C17 ---------------------------------------------------------------
\* C17: when read_data or write_data has left its loop and returned Ok, every
\* bit of REG_RINTSTS that was pending at the exit has been written back:
\* the register holds no bit until the controller raises a new one.
C17_StatusClearedOnExit ==
    (top \in BlockOps /\ step = "data" /\ pc = "ret" /\ res.ok) => rintsts = {}

\* read_data has returned Ok after a turn whose status held transfer-complete
\* and receive-ready, and the register is clear
C17_ReadExitCleared ==
    /\ top = "read_block" /\ step = "data" /\ pc = "ret" /\ res.ok
    /\ {"dto", "rxdr"} \subseteq mask
    /\ rintsts = {}

\* ---- C18 ---------------------------------------------------------------
\* C18: in read_data the offset never exceeds the expected size blk * blk_sz,
\* and buf is never indexed past its end, whatever the FIFO count reads.
C18_OffsetWithinSize ==
    (top = "read_block" /\ step = "data") => (offset <= size /\ pc # "panic")

\* ---- C19 ---------------------------------------------------------------
\* C19: when write_data returns Ok, each of the blk * blk_sz bytes of the
\* buffer has been written to the data FIFO exactly once, in buffer order.
C19_EachByteOnce ==
    (top = "write_block" /\ step = "data" /\ pc = "ret" /\ res.ok) =>
      fifoLog = [i \in 1..size |-> i - 1]

\* ---- C20 ---------------------------------------------------------------
\* a command is written to REG_CMD in this step
CmdWritten == Len(cmdlog') = Len(cmdlog) + 1
CmdLineWaits == {"sc_cmd_line", "rc_wait1", "rc_wait2", "rc_wait3", "st_cmd_line"}

\* C20: REG_CMD is written only with the start_cmd bit of the previous write
\* gone: each write follows a poll that saw the command line idle, with no
\* other write of REG_CMD since that poll (for a data command the data-line
\* wait lies between the poll and the write).
C20_OneCommandInFlight ==
    /\ [][CmdWritten =>
            IF pc = "sc_data_line"
              THEN ~startCmd
              ELSE pc \in CmdLineWaits /\ wf'.out = "done" /\ wf'.pred]_vars
    /\ [](pc = "sc_data_line" => ~startCmd)

\* reset_clock has written its three commands, each after the one before had
\* been taken by the controller
C20_ThreeClockCommands ==
    /\ top = "reset_clock" /\ pc = "ret" /\ res.ok
    /\ Kinds(cmdlog) = ClockProgram
    /\ startCmd

====
